---- MODULE Spec2Model ----
(***************************************************************************)
(* The chat relay of go-chat-app (src/main.go): one handleConnections      *)
(* goroutine per WebSocket connection, one handleMessages goroutine (the   *)
(* Hub), the package-level map `clients` and the unbuffered channel        *)
(* `broadcast`.                                                            *)
(*                                                                         *)
(* The map `clients` is accessed by all goroutines without a lock.  Every  *)
(* map access is therefore modelled as a window: the goroutine enters the  *)
(* access in one step and the access takes effect when it leaves it.  When *)
(* two windows overlap and one of them is a write, the Go runtime may      *)
(* throw "concurrent map iteration and map write" / "concurrent map        *)
(* writes" (action RuntimeThrow, which kills the process), or the accesses *)
(* take effect in either order.                                            *)
(***************************************************************************)
EXTENDS Integers, Sequences, FiniteSets

\* ---------------------------------------------------------------- bounds
MaxConns == 3        \* connections that ever reach handleConnections
MaxMsgs == 2         \* messages decoded by all readers together

Conns == 1..MaxConns

\* Concurrent HTTP requests to the task handlers.
MaxReqs == 3
Reqs == 1..MaxReqs
\* `tasksMu` held by nobody.
Unlocked == 0
\* The {id} path parameters a request can carry.
TaskIDs == 1..MaxReqs
\* A Task with its zero values (Title and Description play no part in the
\* identifiers and are left out).
NoTask == [ID |-> 0, Status |-> ""]
\* Request bodies as json Decode fills a Task: the client may send an id.
Bodies == [ID : {0, 1}, Status : {"", "completed"}]
\* The locals of a handler that is not running.
NoReq == [op |-> "none", task |-> NoTask, id |-> 0]
NoConn == 0          \* the Hub's loop variable `client` outside the loop body

\* ------------------------------------------------------------- messages
\* Well-formed frames a peer can put on the wire: JSON objects (field name ->
\* string).  A payload that is no JSON object makes ReadJSON fail (ReadErr).
Frames == { [content |-> "hi", extra |-> "x"] }

Field(f, k) == IF k \in DOMAIN f THEN f[k] ELSE ""

\* ReadJSON into a Message: unknown fields are dropped, missing ones are "".
Decode(f) == [username |-> Field(f, "username"), content |-> Field(f, "content")]

\* WriteJSON of a Message: both fields are always emitted.  `seq` is not on the
\* wire: it records which receive of the Hub the frame belongs to.
Encode(m, n) == [seq |-> n, username |-> m.username, content |-> m.content]

NoMsg == [username |-> "", content |-> ""]

VARIABLES
    pc,          \* pc[c]: where connection c's handleConnections goroutine is
    clients,     \* the keys of the map `clients`
    broken,      \* broken[c]: c's transport is broken (peer gone, network fault)
    closeCount,  \* closeCount[c]: number of ws.Close()/client.Close() calls on c
    pending,     \* pending[c]: `msg` of c's reader, decoded and not yet handed over
    decoded,     \* number of successful ReadJSON calls so far
    hubPc,       \* where handleMessages is
    hubMsg,      \* `msg` of handleMessages
    cur,         \* `client` of handleMessages
    visited,     \* keys the current range loop has produced
    late,        \* keys created in the map while the current range loop runs
    wire,        \* wire[c]: what WriteJSON has put on c, in order
    hubSeq,      \* number of messages the Hub has received
    snap,        \* the keys of `clients` when the Hub received hubMsg
    stable,      \* keys that stayed in `clients` ever since the Hub received hubMsg
    gone,        \* connections registered and deleted before the Hub received hubMsg
    crashed,     \* the runtime has thrown: the process is dead
    tasks,       \* the slice `tasks`
    nextID,      \* the counter `nextID`
    tasksMu,     \* the request holding `tasksMu`, or Unlocked
    reqPc,       \* reqPc[r]: where HTTP request r's handler is
    req,         \* req[r]: the handler's locals (`task`, `id`) and which handler it is
    issued       \* the IDs createTask has assigned, in the order of assignment

vars == <<pc, clients, broken, closeCount, pending, decoded, hubPc, hubMsg, cur,
          visited, late, wire, hubSeq, snap, stable, gone, crashed,
          tasks, nextID, tasksMu, reqPc, req, issued>>

chatVars == <<pc, clients, broken, closeCount, pending, decoded, hubPc, hubMsg, cur,
              visited, late, wire, hubSeq, snap, stable, gone>>
taskVars == <<tasks, nextID, tasksMu, reqPc, req, issued>>

connVars == <<pc, broken, closeCount, pending, decoded>>
hubVars == <<hubPc, hubMsg, cur, visited, wire, hubSeq, snap, gone>>

\* ---------------------------------------------------------------- state
\* The task store at program start.
TasksInit ==
    /\ tasks = <<>>
    /\ nextID = 1
    /\ tasksMu = Unlocked
    /\ reqPc = [r \in Reqs |-> "idle"]
    /\ req = [r \in Reqs |-> NoReq]
    /\ issued = <<>>

Init ==
    /\ TasksInit
    /\ pc = [c \in Conns |-> "idle"]
    /\ clients = {}
    /\ broken = [c \in Conns |-> FALSE]
    /\ closeCount = [c \in Conns |-> 0]
    /\ pending = [c \in Conns |-> NoMsg]
    /\ decoded = 0
    /\ hubPc = "wait"
    /\ hubMsg = NoMsg
    /\ cur = NoConn
    /\ visited = {}
    /\ late = {}
    /\ wire = [c \in Conns |-> <<>>]
    /\ hubSeq = 0
    /\ snap = {}
    /\ stable = {}
    /\ gone = {}
    /\ crashed = FALSE

\* Connections whose `clients[ws] = true` has taken effect at some time.
Registered == {c \in Conns : pc[c] \in {"read", "send", "delW", "closeD", "done"}}

\* Goroutines that are inside a write of the map.
MapWriters == {c \in Conns : pc[c] \in {"regW", "delW"}}
HubInMap == hubPc \in {"nexting", "deleting"}

\* Two accesses of `clients` overlap and at least one of them is a write.
Race == \/ Cardinality(MapWriters) >= 2
        \/ MapWriters # {} /\ HubInMap

\* ------------------------------------------------- handleConnections (c)
\* upgrader.Upgrade succeeds, `defer ws.Close()` is registered and the
\* goroutine enters `clients[ws] = true`.
Upgrade(c) ==
    /\ ~crashed
    /\ pc[c] = "idle"
    /\ pc' = [pc EXCEPT ![c] = "regW"]
    /\ UNCHANGED <<taskVars, clients, broken, closeCount, pending, decoded, hubVars, late, stable, crashed>>

\* Mutant of UpgradeFail: the connection is registered before err is looked at.
UpgradeFailRegisters(c) ==
    /\ ~crashed
    /\ pc[c] = "idle"
    /\ clients' = clients \cup {c}
    /\ pc' = [pc EXCEPT ![c] = "aborted"]
    /\ UNCHANGED <<taskVars, broken, closeCount, pending, decoded, hubVars, late, stable, crashed>>

\* upgrader.Upgrade fails: log and return, nothing registered, no defer.
UpgradeFail(c) ==
    /\ ~crashed
    /\ pc[c] = "idle"
    /\ pc' = [pc EXCEPT ![c] = "aborted"]
    /\ UNCHANGED <<taskVars, clients, broken, closeCount, pending, decoded, hubVars, late, stable, crashed>>

\* `clients[ws] = true` takes effect; the reader goes to its first ReadJSON.
Register(c) ==
    /\ ~crashed
    /\ pc[c] = "regW"
    /\ clients' = clients \cup {c}
    /\ late' = IF hubPc \in {"nexting", "write", "deleting"} THEN late \cup {c} ELSE late
    /\ pc' = [pc EXCEPT ![c] = "read"]
    /\ UNCHANGED <<taskVars, broken, closeCount, pending, decoded, hubVars, stable, crashed>>

\* Mutant of ReadCanSucceed: ReadJSON keeps delivering frames on a connection
\* the server has closed.
ReadCanSucceedAlways(c) == c \in Conns

\* ReadJSON returns an error exactly when it cannot deliver a message.
ReadCanSucceed(c) == ~broken[c] /\ closeCount[c] = 0

\* Mutant of ReadOk: the reader echoes the decoded message to its own
\* connection before handing it to the Hub.
ReadOkEcho(c, f) ==
    /\ ~crashed
    /\ pc[c] = "read"
    /\ ReadCanSucceed(c)
    /\ decoded < MaxMsgs
    /\ decoded' = decoded + 1
    /\ pending' = [pending EXCEPT ![c] = Decode(f)]
    /\ pc' = [pc EXCEPT ![c] = "send"]
    /\ wire' = [wire EXCEPT ![c] = Append(@, Encode(Decode(f), hubSeq))]
    /\ UNCHANGED <<taskVars, clients, broken, closeCount, hubPc, hubMsg, cur, visited, hubSeq, snap, gone, late, stable, crashed>>

\* ReadJSON decodes frame f; the goroutine goes to `broadcast <- msg`.
ReadOk(c, f) ==
    /\ ~crashed
    /\ pc[c] = "read"
    /\ ReadCanSucceed(c)
    /\ decoded < MaxMsgs
    /\ decoded' = decoded + 1
    /\ pending' = [pending EXCEPT ![c] = Decode(f)]
    /\ pc' = [pc EXCEPT ![c] = "send"]
    /\ UNCHANGED <<taskVars, clients, broken, closeCount, hubVars, late, stable, crashed>>

\* ReadJSON fails (malformed payload, peer closed, network error, connection
\* closed by the Hub); the goroutine logs and enters `delete(clients, ws)`.
ReadErr(c) ==
    /\ ~crashed
    /\ pc[c] = "read"
    /\ pc' = [pc EXCEPT ![c] = "delW"]
    /\ UNCHANGED <<taskVars, clients, broken, closeCount, pending, decoded, hubVars, late, stable, crashed>>

\* Mutant of ReaderDelete: the reader leaves the loop without its delete.
ReaderDeleteOmitted(c) ==
    /\ ~crashed
    /\ pc[c] = "delW"
    /\ pc' = [pc EXCEPT ![c] = "closeD"]
    /\ UNCHANGED <<taskVars, clients, stable, broken, closeCount, pending, decoded, hubVars, late, crashed>>

\* `delete(clients, ws)` takes effect; `break` leaves the loop.
ReaderDelete(c) ==
    /\ ~crashed
    /\ pc[c] = "delW"
    /\ clients' = clients \ {c}
    /\ stable' = stable \ {c}
    /\ pc' = [pc EXCEPT ![c] = "closeD"]
    /\ UNCHANGED <<taskVars, broken, closeCount, pending, decoded, hubVars, late, crashed>>

\* Mutant of DeferredClose: handleConnections returns without closing.
DeferredCloseOmitted(c) ==
    /\ ~crashed
    /\ pc[c] = "closeD"
    /\ pc' = [pc EXCEPT ![c] = "done"]
    /\ UNCHANGED <<taskVars, clients, broken, closeCount, pending, decoded, hubVars, late, stable, crashed>>

\* The deferred ws.Close() runs and handleConnections returns.
DeferredClose(c) ==
    /\ ~crashed
    /\ pc[c] = "closeD"
    /\ closeCount' = [closeCount EXCEPT ![c] = @ + 1]
    /\ pc' = [pc EXCEPT ![c] = "done"]
    /\ UNCHANGED <<taskVars, clients, broken, pending, decoded, hubVars, late, stable, crashed>>

\* The environment breaks c's transport.
Break(c) ==
    /\ ~crashed
    /\ pc[c] \in {"read", "send"}
    /\ ~broken[c]
    /\ broken' = [broken EXCEPT ![c] = TRUE]
    /\ UNCHANGED <<taskVars, pc, clients, closeCount, pending, decoded, hubVars, late, stable, crashed>>

\* ------------------------------------------------------- handleMessages
\* Mutant of HubRecv: the Hub leaves the originating connection out of the loop.
HubRecvNoEcho(c) ==
    /\ ~crashed
    /\ hubPc = "wait"
    /\ pc[c] = "send"
    /\ hubMsg' = pending[c]
    /\ hubSeq' = hubSeq + 1
    /\ pending' = [pending EXCEPT ![c] = NoMsg]
    /\ pc' = [pc EXCEPT ![c] = "read"]
    /\ hubPc' = "nexting"
    /\ cur' = NoConn
    /\ visited' = {c}
    /\ late' = {}
    /\ snap' = clients
    /\ stable' = clients
    /\ gone' = Registered \ clients
    /\ UNCHANGED <<taskVars, clients, broken, closeCount, decoded, wire, crashed>>

\* `msg := <-broadcast` meets reader c's `broadcast <- msg` (the channel is
\* unbuffered); the Hub enters the range loop, the reader goes back to ReadJSON.
HubRecv(c) ==
    /\ ~crashed
    /\ hubPc = "wait"
    /\ pc[c] = "send"
    /\ hubMsg' = pending[c]
    /\ hubSeq' = hubSeq + 1
    /\ pending' = [pending EXCEPT ![c] = NoMsg]
    /\ pc' = [pc EXCEPT ![c] = "read"]
    /\ hubPc' = "nexting"
    /\ cur' = NoConn
    /\ visited' = {}
    /\ late' = {}
    /\ snap' = clients
    /\ stable' = clients
    /\ gone' = Registered \ clients
    /\ UNCHANGED <<taskVars, clients, broken, closeCount, decoded, wire, crashed>>

\* Mutant of RangeCandidates: the loop runs over every connection ever
\* registered, deleted ones included.
RangeCandidatesStale == Registered \ visited

\* Keys the range loop can still produce.
RangeCandidates == clients \ visited

\* The range loop produces key c; the Hub goes to client.WriteJSON(msg).
HubNext(c) ==
    /\ ~crashed
    /\ hubPc = "nexting"
    /\ c \in RangeCandidates
    /\ cur' = c
    /\ visited' = visited \cup {c}
    /\ hubPc' = "write"
    /\ UNCHANGED <<taskVars, connVars, clients, hubMsg, late, wire, hubSeq, snap, stable, gone, crashed>>

\* Mutant of HubRangeDone: the loop can be left before every key was produced.
HubRangeDoneEarly ==
    /\ ~crashed
    /\ hubPc = "nexting"
    /\ hubPc' = "wait"
    /\ cur' = NoConn
    /\ UNCHANGED <<taskVars, connVars, clients, hubMsg, visited, late, wire, hubSeq, snap, stable, gone, crashed>>

\* The range loop ends: every key not produced was created during the loop
\* (such a key may be produced or skipped).  The Hub blocks on the channel.
HubRangeDone ==
    /\ ~crashed
    /\ hubPc = "nexting"
    /\ RangeCandidates \subseteq late
    /\ hubPc' = "wait"
    /\ cur' = NoConn
    /\ UNCHANGED <<taskVars, connVars, clients, hubMsg, visited, late, wire, hubSeq, snap, stable, gone, crashed>>

\* Mutant of WriteFails: a write on a broken transport still succeeds.
WriteFailsClosedOnly(c) == closeCount[c] > 0

\* client.WriteJSON fails on a broken transport and on a closed connection.
WriteFails(c) == broken[c] \/ closeCount[c] > 0

\* Mutant of Deliver: the frame overtakes the frames written before it.
DeliverFirst(w, m, n) == <<Encode(m, n)>> \o w

\* What a successful WriteJSON leaves on the connection.
Deliver(w, m, n) == Append(w, Encode(m, n))

\* WriteJSON succeeds; next key.
HubWriteOk ==
    /\ ~crashed
    /\ hubPc = "write"
    /\ ~WriteFails(cur)
    /\ wire' = [wire EXCEPT ![cur] = Deliver(@, hubMsg, hubSeq)]
    /\ hubPc' = "nexting"
    /\ UNCHANGED <<taskVars, connVars, clients, hubMsg, cur, visited, late, hubSeq, snap, stable, gone, crashed>>

\* WriteJSON fails: log, client.Close(), and the Hub enters delete(clients, client).
HubWriteErr ==
    /\ ~crashed
    /\ hubPc = "write"
    /\ WriteFails(cur)
    /\ closeCount' = [closeCount EXCEPT ![cur] = @ + 1]
    /\ hubPc' = "deleting"
    /\ UNCHANGED <<taskVars, pc, broken, pending, decoded, clients, hubMsg, cur, visited, late, wire,
                   hubSeq, snap, stable, gone, crashed>>

\* Mutant of HubDelete: the failed write ends the range loop.
HubDeleteBreak ==
    /\ ~crashed
    /\ hubPc = "deleting"
    /\ clients' = clients \ {cur}
    /\ stable' = stable \ {cur}
    /\ hubPc' = "wait"
    /\ UNCHANGED <<taskVars, connVars, hubMsg, cur, visited, late, wire, hubSeq, snap, gone, crashed>>

\* delete(clients, client) takes effect; next key.
HubDelete ==
    /\ ~crashed
    /\ hubPc = "deleting"
    /\ clients' = clients \ {cur}
    /\ stable' = stable \ {cur}
    /\ hubPc' = "nexting"
    /\ UNCHANGED <<taskVars, connVars, hubMsg, cur, visited, late, wire, hubSeq, snap, gone, crashed>>

\* ------------------------------------------------------------- runtime
\* The Go runtime detects overlapping map accesses and throws: fatal error,
\* the whole process (Hub and every reader) stops.
RuntimeThrow ==
    /\ ~crashed
    /\ Race
    /\ crashed' = TRUE
    /\ UNCHANGED <<taskVars, connVars, clients, hubVars, late, stable>>

Next ==
    \/ \E c \in Conns : Upgrade(c)
    \/ \E c \in Conns : UpgradeFail(c)
    \/ \E c \in Conns : Register(c)
    \/ \E c \in Conns : \E f \in Frames : ReadOk(c, f)
    \/ \E c \in Conns : ReadErr(c)
    \/ \E c \in Conns : ReaderDelete(c)
    \/ \E c \in Conns : DeferredClose(c)
    \/ \E c \in Conns : Break(c)
    \/ \E c \in Conns : HubRecv(c)
    \/ \E c \in Conns : HubNext(c)
    \/ HubRangeDone
    \/ HubWriteOk
    \/ HubWriteErr
    \/ HubDelete
    \/ RuntimeThrow

Spec == Init /\ [][Next]_vars

\* The steps of handleMessages.
HubStep ==
    \/ \E c \in Conns : HubRecv(c)
    \/ \E c \in Conns : HubNext(c)
    \/ HubRangeDone
    \/ HubWriteOk
    \/ HubWriteErr
    \/ HubDelete

\* The steps a reader goroutine takes on its own (no input from the peer).
ReaderStep(c) == Register(c) \/ ReaderDelete(c) \/ DeferredClose(c)

\* A ReadJSON that cannot deliver a message returns its error.
ReadFailure(c) == ~ReadCanSucceed(c) /\ ReadErr(c)

\* Scheduling of goroutines: a goroutine that can run eventually runs, and the
\* channel's queue of blocked senders is first in, first out, so no sender is
\* passed over forever.  The runtime's throw and the environment are not fair.
Fairness ==
    /\ WF_vars(HubStep)
    /\ \A c \in Conns : WF_vars(ReaderStep(c))
    /\ \A c \in Conns : WF_vars(ReadFailure(c))
    /\ \A c \in Conns : SF_vars(HubRecv(c))

FairSpec == Spec /\ Fairness

\* ---------------------------------------------------------------- claims
Copies(c, n) == Cardinality({i \in DOMAIN wire[c] : wire[c][i].seq = n})
InFanOut == hubPc # "wait"
FanOutDone == hubPc = "wait" /\ hubSeq > 0

\* C1: fan-out completeness.  No connection is ever written more than one copy
\* of a message, and when the Hub has finished the fan-out of a message, every
\* connection that stayed in the client set during the whole fan-out holds
\* exactly one copy of it, with the username and the content the Hub received.
C1_FanOutCompleteness ==
    /\ \A c \in Conns : \A n \in 1..hubSeq : Copies(c, n) <= 1
    /\ FanOutDone =>
         \A c \in stable :
            /\ Copies(c, hubSeq) = 1
            /\ \E i \in DOMAIN wire[c] :
                 /\ wire[c][i].seq = hubSeq
                 /\ wire[c][i].username = hubMsg.username
                 /\ wire[c][i].content = hubMsg.content

\* Every connection stayed registered through a finished fan-out.
C1_Witness ==
    /\ FanOutDone
    /\ stable = Conns
    /\ \A c \in stable : Copies(c, hubSeq) = 1 /\ ~broken[c]

\* C2: eviction isolation.  The Hub's delete after a failed write removes the
\* failed connection only and the range loop goes on with the next key; when the
\* fan-out ends, every connection that stayed registered during it was attempted.
C2_EvictionIsolation ==
    [][ /\ (hubPc = "deleting" /\ hubPc' # "deleting")
            => (clients' = clients \ {cur} /\ hubPc' = "nexting" /\ hubMsg' = hubMsg)
        /\ (InFanOut /\ hubPc' = "wait") => stable' \subseteq visited'
      ]_vars

\* In one fan-out a write failed, the Hub evicted that connection, and the
\* write to another connection was made afterwards and succeeded.
C2_Witness ==
    /\ hubPc = "nexting"
    /\ cur \in stable
    /\ Copies(cur, hubSeq) = 1
    /\ \E c \in (visited \cap snap) \ {cur} :
         /\ c \notin clients
         /\ closeCount[c] = 1
         /\ pc[c] \in {"read", "send"}

\* C3: no ghost delivery.  A connection that was registered and removed from the
\* client set before the Hub received the current message is not produced by the
\* range loop of that message and holds no copy of it.
C3_NoGhostDelivery ==
    /\ visited \cap gone = {}
    /\ cur \notin gone
    /\ \A c \in gone : Copies(c, hubSeq) = 0

\* A fan-out ran to its end while two connections removed earlier existed, one
\* removed by its reader's delete and one by the Hub's.
C3_Witness ==
    /\ FanOutDone
    /\ visited # {}
    /\ \E c, d \in gone : closeCount[c] = 0 /\ closeCount[d] > 0 /\ pc[d] \in {"read", "send"}

\* C4: FIFO delivery.  Every write is appended to its connection, and the
\* message it writes was received by the Hub after every message already
\* written to that connection and no earlier than any message written to any.
LastOf(w) == w[Len(w)]
C4_FifoDelivery ==
    [][ \A c \in Conns : wire'[c] # wire[c] =>
          /\ Len(wire'[c]) = Len(wire[c]) + 1
          /\ SubSeq(wire'[c], 1, Len(wire[c])) = wire[c]
          /\ \A d \in Conns : \A i \in DOMAIN wire[d] :
                /\ wire[d][i].seq <= LastOf(wire'[c]).seq
                /\ d = c => wire[d][i].seq < LastOf(wire'[c]).seq
      ]_vars

\* A connection has been written two messages.
C4_Witness == \E c \in Conns : Len(wire[c]) >= 2

\* C5: idempotent removal.  A connection is closed at most once.
C5_ClosedOnce == \A c \in Conns : closeCount[c] <= 1

\* C6: accesses of the client set are mutually exclusive.
C6_RegistryMutex == ~Race

\* C7: point-in-time snapshot.  The range loop produces only members of the
\* client set as it was when the Hub received the message, and all of them.
C7_PointInTimeSnapshot ==
    /\ visited \subseteq snap
    /\ FanOutDone => visited = snap

\* C8: reader failure handling.  After a failed read the reader never reads or
\* sends again, and once its delete has taken effect the connection is not a
\* member of the client set, now or later.
Failed(p) == p \in {"delW", "closeD", "done"}
C8_ReaderFailure ==
    [][ \A c \in Conns :
          /\ Failed(pc[c]) => (Failed(pc'[c]) /\ pending'[c] = pending[c])
          /\ pc'[c] \in {"closeD", "done"} => c \notin clients'
          /\ pc[c] = "done" => pc'[c] = "done"
      ]_vars

\* A reader that had published a message failed a read and terminated.
C8_Witness == \E c \in Conns : pc[c] = "done" /\ wire[c] # <<>> /\ c \notin clients

\* C9: no loss at the handoff.  Every decoded message is either still held by
\* its reader, blocked on the send, or was received by the Hub, once; what the
\* Hub receives is what that reader decoded; and a reader blocked on the send
\* is eventually unblocked.
Senders == {c \in Conns : pc[c] = "send"}
C9_NoLossAtHandoff ==
    /\ [](decoded = hubSeq + Cardinality(Senders))
    /\ [][hubSeq' # hubSeq => \E c \in Senders : hubMsg' = pending[c] /\ pc'[c] # "send"]_vars
    /\ \A c \in Conns : (pc[c] = "send") ~> (pc[c] # "send")

\* C10: the Hub never terminates and is never stuck in a fan-out: outside the
\* receive it always has a step to take.
C10_HubNeverStuck == InFanOut => ENABLED HubStep

\* ------------------------------------------------------------- scenario
\* Three connections A, B, C are registered and idle in ReadJSON; A publishes,
\* then B's transport breaks, then A publishes again.  A and C stay healthy.
ConnA == NoConn + 1
ConnB == ConnA + 1
ConnC == ConnB + 1
ScenConns == {ConnA, ConnB, ConnC}

ScenInit ==
    /\ TasksInit
    /\ pc = [c \in Conns |-> IF c \in ScenConns THEN "read" ELSE "idle"]
    /\ clients = ScenConns
    /\ broken = [c \in Conns |-> FALSE]
    /\ closeCount = [c \in Conns |-> 0]
    /\ pending = [c \in Conns |-> NoMsg]
    /\ decoded = 0
    /\ hubPc = "wait"
    /\ hubMsg = NoMsg
    /\ cur = NoConn
    /\ visited = {}
    /\ late = {}
    /\ wire = [c \in Conns |-> <<>>]
    /\ hubSeq = 0
    /\ snap = {}
    /\ stable = {}
    /\ gone = {}
    /\ crashed = FALSE

\* A's ReadJSON returns a message; the second one only after B's break.
ScenPublish == (decoded >= 1 => broken[ConnB]) /\ \E f \in Frames : ReadOk(ConnA, f)

\* B's transport breaks after A's first message.
ScenBreak == decoded >= 1 /\ Break(ConnB)

\* B's pending ReadJSON fails on the broken transport.
ScenObserve == broken[ConnB] /\ ReadErr(ConnB)

ScenNext ==
    \/ ScenPublish
    \/ ScenBreak
    \/ ScenObserve
    \/ \E c \in Conns : ReaderDelete(c)
    \/ \E c \in Conns : DeferredClose(c)
    \/ \E c \in Conns : HubRecv(c)
    \/ \E c \in Conns : HubNext(c)
    \/ HubRangeDone
    \/ HubWriteOk
    \/ HubWriteErr
    \/ HubDelete
    \/ RuntimeThrow

ScenSpec == ScenInit /\ [][ScenNext]_vars

\* C11: in the scenario, once the fan-out of A's second message has ended and
\* B's reader has seen the break, B holds no copy of the second message, C holds
\* exactly one copy of each message, and the client set is {A, C}.
SecondFanOutDone == hubSeq > 2 \/ (hubSeq = 2 /\ hubPc = "wait")
C12_UpgradeFailureFrame ==
    [][ \A c \in Conns :
          /\ (pc[c] = "idle" /\ pc'[c] = "aborted") =>
                /\ UNCHANGED <<clients, broken, closeCount, pending, decoded, wire>>
                /\ UNCHANGED <<hubPc, hubMsg, cur, visited, hubSeq, crashed>>
                /\ \A d \in Conns \ {c} : pc'[d] = pc[d]
          /\ pc[c] = "aborted" => pc'[c] = "aborted"
      ]_vars

\* An upgrade failed while the Hub was in a fan-out and a sender was blocked.
C12_Witness ==
    /\ \E c \in Conns : pc[c] = "aborted"
    /\ hubPc = "write"
    /\ Senders # {}
    /\ clients # {}

\* ------------------------------------------------------------- teardown
\* The service after one connection attempt has failed its upgrade, under fair
\* scheduling.
LiveInit ==
    /\ TasksInit
    /\ pc = [c \in Conns |-> IF c = MaxConns THEN "aborted" ELSE "idle"]
    /\ clients = {}
    /\ broken = [c \in Conns |-> FALSE]
    /\ closeCount = [c \in Conns |-> 0]
    /\ pending = [c \in Conns |-> NoMsg]
    /\ decoded = 0
    /\ hubPc = "wait"
    /\ hubMsg = NoMsg
    /\ cur = NoConn
    /\ visited = {}
    /\ late = {}
    /\ wire = [c \in Conns |-> <<>>]
    /\ hubSeq = 0
    /\ snap = {}
    /\ stable = {}
    /\ gone = {}
    /\ crashed = FALSE

LiveSpec == LiveInit /\ [][Next]_vars /\ Fairness

\* C13: every broken connection is eventually destroyed.  After a failed read
\* (the reader is in its delete) or a failed write (the Hub is in its delete of
\* the connection) the connection is eventually closed, absent from the client
\* set and its reader has returned, unless the process has died first.
Failing(c) == pc[c] = "delW" \/ (hubPc = "deleting" /\ cur = c)
Destroyed(c) == closeCount[c] > 0 /\ c \notin clients /\ pc[c] = "done"
Removing(c) == pc[c] \in {"delW", "closeD"} \/ (hubPc \in {"write", "deleting"} /\ cur = c /\ WriteFails(c))
C14_FailureLocality ==
    [][ /\ \A d \in Conns :
             ((d \in clients /\ d \notin clients') \/ closeCount'[d] # closeCount[d]) => Removing(d)
        /\ (\E c \in Conns : Failing(c)) => ~crashed'
      ]_vars

\* C14, the frame part alone: only the failed connection's membership and
\* open/closed state change in a step that handles its failure.
C14_FrameOnly ==
    [][ \A d \in Conns :
          ((d \in clients /\ d \notin clients') \/ closeCount'[d] # closeCount[d]) => Removing(d)
      ]_vars

\* C15: registered implies open.  Every member of the client set has not been
\* closed by the server.
C15_RegisteredImpliesOpen == \A c \in clients : closeCount[c] = 0

\* C16: the sender is included in its own fan-out.  When the Hub receives a
\* message from a registered connection, that connection is among the keys
\* the range loop will produce, and a connection that stays registered until
\* the fan-out ends holds exactly one copy of the message.
C16_SenderIncluded ==
    /\ [][ hubSeq' # hubSeq =>
             \A c \in Senders : (pc'[c] # "send" /\ c \in clients) =>
                 (c \in stable' /\ c \in clients' \ visited') ]_vars
    /\ [](FanOutDone => \A c \in stable : Copies(c, hubSeq) = 1)

\* The only connection ever registered published a message and holds its copy.
C16_Witness ==
    /\ FanOutDone
    /\ \E c \in Conns : Registered = {c} /\ stable = {c} /\ Copies(c, hubSeq) = 1 /\ wire[c][1].content = "hi"

\* C17: single writer.  Every frame written to a connection is written by the
\* Hub, one frame at a time, at its WriteJSON on the connection the range loop
\* currently holds; no reader step writes to any connection.
C17_SingleWriter ==
    [][ \A c \in Conns : wire'[c] # wire[c] =>
            /\ hubPc = "write" /\ cur = c
            /\ pc' = pc
            /\ Len(wire'[c]) = Len(wire[c]) + 1
            /\ \A d \in Conns \ {c} : wire'[d] = wire[d] ]_vars

\* The Hub has written one frame to d and is at WriteJSON on c while c's
\* reader is blocked on the channel send and d's reader is in ReadJSON.
C17_Witness ==
    /\ hubPc = "write"
    /\ \E c, d \in Conns : c # d /\ cur = c /\ pc[c] = "send" /\ Len(wire[d]) = 1 /\ pc[d] = "read"

\* C18: the Hub never writes to a connection the server has already closed.
\* Every step in which the Hub's WriteJSON returns is taken on a connection
\* on which Close has not been called.
C18_NoWriteAfterClose ==
    [][ (hubPc = "write" /\ hubPc' # "write") => closeCount[cur] = 0 ]_vars

IndexOf(ts, id) ==
    IF \E i \in DOMAIN ts : ts[i].ID = id
    THEN CHOOSE i \in DOMAIN ts : ts[i].ID = id /\ \A j \in 1..(i - 1) : ts[j].ID # id
    ELSE 0

\* append(tasks[:i], tasks[i+1:]...), with i counted from 1.
Remove(ts, i) == SubSeq(ts, 1, i - 1) \o SubSeq(ts, i + 1, Len(ts))

\* createTask decodes the request body into `task`.
CreateDecode(r, body) ==
    /\ ~crashed
    /\ reqPc[r] = "idle"
    /\ req' = [req EXCEPT ![r] = [op |-> "create", task |-> body, id |-> 0]]
    /\ reqPc' = [reqPc EXCEPT ![r] = "lock"]
    /\ UNCHANGED <<chatVars, crashed, tasks, nextID, tasksMu, issued>>

\* deleteTask converts the {id} path parameter.
DeleteParse(r, id) ==
    /\ ~crashed
    /\ reqPc[r] = "idle"
    /\ req' = [req EXCEPT ![r] = [op |-> "delete", task |-> NoTask, id |-> id]]
    /\ reqPc' = [reqPc EXCEPT ![r] = "lock"]
    /\ UNCHANGED <<chatVars, crashed, tasks, nextID, tasksMu, issued>>

\* updateTask converts the {id} path parameter and decodes the body.
UpdateParse(r, id, body) ==
    /\ ~crashed
    /\ reqPc[r] = "idle"
    /\ req' = [req EXCEPT ![r] = [op |-> "update", task |-> body, id |-> id]]
    /\ reqPc' = [reqPc EXCEPT ![r] = "lock"]
    /\ UNCHANGED <<chatVars, crashed, tasks, nextID, tasksMu, issued>>

\* The body does not decode, or the id is not a number: 400, nothing touched.
BadRequest(r) ==
    /\ ~crashed
    /\ reqPc[r] = "idle"
    /\ reqPc' = [reqPc EXCEPT ![r] = "done"]
    /\ UNCHANGED <<chatVars, crashed, tasks, nextID, tasksMu, req, issued>>

\* Mutant of TasksLock: the handler enters without waiting for the mutex.
TasksLockNoMutex(r) ==
    /\ ~crashed
    /\ reqPc[r] = "lock"
    /\ tasksMu' = r
    /\ reqPc' = [reqPc EXCEPT ![r] = IF req[r].op = "create" THEN "assign"
                                      ELSE IF req[r].op = "update" THEN "modify" ELSE "search"]
    /\ UNCHANGED <<chatVars, crashed, tasks, nextID, req, issued>>

\* tasksMu.Lock()
TasksLock(r) ==
    /\ ~crashed
    /\ reqPc[r] = "lock"
    /\ tasksMu = Unlocked
    /\ tasksMu' = r
    /\ reqPc' = [reqPc EXCEPT ![r] = IF req[r].op = "create" THEN "assign"
                                      ELSE IF req[r].op = "update" THEN "modify" ELSE "search"]
    /\ UNCHANGED <<chatVars, crashed, tasks, nextID, req, issued>>

\* task.ID = nextID
CreateAssignID(r) ==
    /\ ~crashed
    /\ reqPc[r] = "assign"
    /\ req' = [req EXCEPT ![r].task.ID = nextID]
    /\ issued' = Append(issued, nextID)
    /\ reqPc' = [reqPc EXCEPT ![r] = "incr"]
    /\ UNCHANGED <<chatVars, crashed, tasks, nextID, tasksMu>>

\* nextID++
CreateIncrement(r) ==
    /\ ~crashed
    /\ reqPc[r] = "incr"
    /\ nextID' = nextID + 1
    /\ reqPc' = [reqPc EXCEPT ![r] = "append"]
    /\ UNCHANGED <<chatVars, crashed, tasks, tasksMu, req, issued>>

\* The default status, then tasks = append(tasks, task).
CreateAppend(r) ==
    /\ ~crashed
    /\ reqPc[r] = "append"
    /\ LET task == IF req[r].task.Status = ""
                   THEN [req[r].task EXCEPT !.Status = "pending"]
                   ELSE req[r].task
       IN  /\ tasks' = Append(tasks, task)
           /\ req' = [req EXCEPT ![r].task = task]
    /\ reqPc' = [reqPc EXCEPT ![r] = "unlock"]
    /\ UNCHANGED <<chatVars, crashed, nextID, tasksMu, issued>>

\* deleteTask's loop: the first task with the id is cut out; 404 otherwise.
DeleteSearch(r) ==
    /\ ~crashed
    /\ reqPc[r] = "search"
    /\ LET i == IndexOf(tasks, req[r].id)
       IN  tasks' = IF i = 0 THEN tasks ELSE Remove(tasks, i)
    /\ reqPc' = [reqPc EXCEPT ![r] = "unlock"]
    /\ UNCHANGED <<chatVars, crashed, nextID, tasksMu, req, issued>>

\* updateTask's loop: the first task with the id takes the non-empty fields of
\* the body (its ID is not one of them); 404 otherwise.
UpdateSearch(r) ==
    /\ ~crashed
    /\ reqPc[r] = "modify"
    /\ LET i == IndexOf(tasks, req[r].id)
       IN  tasks' = IF i = 0 \/ req[r].task.Status = "" THEN tasks
                    ELSE [tasks EXCEPT ![i].Status = req[r].task.Status]
    /\ reqPc' = [reqPc EXCEPT ![r] = "unlock"]
    /\ UNCHANGED <<chatVars, crashed, nextID, tasksMu, req, issued>>

\* The deferred tasksMu.Unlock(); the handler returns.
TasksUnlock(r) ==
    /\ ~crashed
    /\ reqPc[r] = "unlock"
    /\ tasksMu' = Unlocked
    /\ req' = [req EXCEPT ![r] = NoReq]
    /\ reqPc' = [reqPc EXCEPT ![r] = "done"]
    /\ UNCHANGED <<chatVars, crashed, tasks, nextID, issued>>

TaskNext ==
    \/ \E r \in Reqs : \E body \in Bodies : CreateDecode(r, body)
    \/ \E r \in Reqs : \E id \in TaskIDs : DeleteParse(r, id)
    \/ \E r \in Reqs : \E id \in TaskIDs : \E body \in Bodies : UpdateParse(r, id, body)
    \/ \E r \in Reqs : BadRequest(r)
    \/ \E r \in Reqs : TasksLock(r)
    \/ \E r \in Reqs : CreateAssignID(r)
    \/ \E r \in Reqs : CreateIncrement(r)
    \/ \E r \in Reqs : CreateAppend(r)
    \/ \E r \in Reqs : DeleteSearch(r)
    \/ \E r \in Reqs : UpdateSearch(r)
    \/ \E r \in Reqs : TasksUnlock(r)

TaskSpec == Init /\ [][TaskNext]_vars

\* C20: task identifiers are unique and never reused.  No two stored tasks
\* share an ID; the IDs assigned are strictly increasing from 1, whatever was
\* deleted in between; every stored ID is one that was assigned; and each
\* assignment gives an ID greater than every ID assigned before it.
C20_TaskIDsUnique ==
    /\ [](/\ \A i, j \in DOMAIN tasks : i # j => tasks[i].ID # tasks[j].ID
          /\ \A i, j \in DOMAIN issued : i < j => issued[i] < issued[j]
          /\ issued # <<>> => issued[1] = 1
          /\ \A i \in DOMAIN tasks : \E k \in DOMAIN issued : tasks[i].ID = issued[k])
    /\ [][ \A r \in Reqs : (reqPc[r] = "assign" /\ reqPc'[r] = "incr") =>
             \A k \in DOMAIN issued : req'[r].task.ID > issued[k] ]_vars

\* Task 1 was created and deleted, the store is empty, and the next createTask,
\* whose client sent id 1, has been assigned ID 2.
C20_Witness ==
    \E r \in Reqs :
        /\ reqPc[r] = "incr"
        /\ tasks = <<>>
        /\ issued = <<1, 2>>
        /\ req[r].task.ID = 2

====
